---- MODULE Spec2Model ----
(***************************************************************************)
(* Model of the GPTSovits orchestrator of src/lib.rs: the speaker registry *)
(* (GPTSovits::speakers), enrollment (create_speaker) and the two          *)
(* synthesis operations (infer, segment_infer).                            *)
(*                                                                         *)
(* Texts are sequences of characters.  Tensors are abstract values that    *)
(* record what they were computed from.  The neural runtime (tch) and the  *)
(* text module are called through operators whose success or failure is    *)
(* decided by an environment record `env` that each call draws afresh.     *)
(***************************************************************************)
EXTENDS Integers, Sequences, FiniteSets, TLC

VARIABLES
    speakers,    \* GPTSovits::speakers : name -> Speaker, or NoSpeaker
    pc,          \* "idle": no call in progress; "done": a call has run to its return
    op,          \* the operation that ran last and its arguments
    result,      \* the anyhow::Result that operation returns
    calls,       \* the calls that operation made: infer, forward synthesis, runtime
    enrolled     \* history: per name, the arguments of its last successful create_speaker

vars == <<speakers, pc, op, result, calls, enrolled>>

----------------------------------------------------------------------------
(* Bounds and input sets *)

MaxTextLen == 2

\* "o" stands for the ideographic full stop U+3002 (lib.rs:166).
Chars == {"a", ".", "o"}
Terminators == {".", "o"}

Names == {"A", "B"}
Paths == {"p1", "p2"}
SampleBuffers == {<<1>>, <<2>>}
Rates == {44100}
RefTexts == {<<>>, <<"a">>, <<"a", ".">>, <<"a", "o">>}
ChunkSizes == {0, 1, 50}

RECURSIVE TextsOfLen(_)
TextsOfLen(n) ==
    IF n = 0 THEN {<<>>}
    ELSE {Append(t, c) : t \in TextsOfLen(n - 1), c \in Chars}

Texts == UNION {TextsOfLen(n) : n \in 0..MaxTextLen}

Rate16k == 16000
Rate32k == 32000

\* What the outside world does during one call: whether the model file
\* loads, which resample targets fail, whether the ssl forward pass fails,
\* and per character whether its symbol is known ("unk": phonemization
\* fails) and accepted by the synthesis model ("rej": forward fails).
CreateEnvs ==
    [load : BOOLEAN, resample : SUBSET {Rate16k, Rate32k}, ssl : BOOLEAN,
     sym : [Chars -> {"ok", "unk"}]]

SynthEnvs == [sym : [Chars -> {"ok", "unk", "rej"}]]

\* The environments of a synthesis call on a text: the fate of a character
\* the text does not contain cannot matter to the call and is left "ok".
SynthEnvsFor(text) ==
    {e \in SynthEnvs :
        \A c \in Chars :
            (\A i \in 1..Len(text) : text[i] # c) => e.sym[c] = "ok"}

NoSpeaker == [name |-> "<none>"]
NoEnv == [sym |-> [c \in Chars |-> "ok"]]
NoOp ==
    [kind |-> "none", name |-> "", path |-> "", samples |-> <<>>, sr |-> 0,
     text |-> <<>>, size |-> 0, env |-> NoEnv, replaced |-> NoSpeaker]
NoCalls == [infer |-> <<>>, forward |-> <<>>, runtime |-> <<>>]

DefaultChunkSize == 50

----------------------------------------------------------------------------
(* Results *)

OkUnit == [ok |-> TRUE, err |-> "", val |-> <<>>]
OkVal(v) == [ok |-> TRUE, err |-> "", val |-> v]
Err(e) == [ok |-> FALSE, err |-> e, val |-> <<>>]

ErrSpeakerNotFound == "speaker not found"
ErrNoAudio == "no audio generated"

----------------------------------------------------------------------------
(* The text module (crate::text) *)

SymbolId(c) == CASE c = "a" -> 1 [] c = "." -> 2 [] c = "o" -> 3

\* text::get_phone_and_bert: the phoneme ids of the text and an embedding
\* sequence aligned with it index for index; an unknown symbol is an error.
get_phone_and_bert(env, text) ==
    IF \E i \in 1..Len(text) : env.sym[text[i]] = "unk"
    THEN Err("unknown symbol")
    ELSE OkVal([phone |-> [i \in 1..Len(text) |-> SymbolId(text[i])],
                bert |-> [i \in 1..Len(text) |-> 0]])

\* The sentences of a text: each ends with its terminator, the last one
\* may lack it.
RECURSIVE Sentences(_, _)
Sentences(text, cur) ==
    IF text = <<>> THEN (IF cur = <<>> THEN <<>> ELSE <<cur>>)
    ELSE IF Head(text) \in Terminators
         THEN <<Append(cur, Head(text))>> \o Sentences(Tail(text), <<>>)
         ELSE Sentences(Tail(text), Append(cur, Head(text)))

\* Hard cut of one sentence into pieces of at most n characters.
RECURSIVE HardCut(_, _)
HardCut(s, n) ==
    IF Len(s) <= n THEN <<s>>
    ELSE <<SubSeq(s, 1, n)>> \o HardCut(SubSeq(s, n + 1, Len(s)), n)

RECURSIVE CutAll(_, _)
CutAll(ss, n) ==
    IF ss = <<>> THEN <<>> ELSE HardCut(Head(ss), n) \o CutAll(Tail(ss), n)

\* Greedy packing of the pieces into fragments within the budget n.
RECURSIVE Pack(_, _, _)
Pack(ps, cur, n) ==
    IF ps = <<>> THEN (IF cur = <<>> THEN <<>> ELSE <<cur>>)
    ELSE IF cur # <<>> /\ Len(cur) + Len(Head(ps)) > n
         THEN <<cur>> \o Pack(Tail(ps), Head(ps), n)
         ELSE Pack(Tail(ps), cur \o Head(ps), n)

\* text::split_text
split_text(text, n) == Pack(CutAll(Sentences(text, <<>>), n), <<>>, n)

----------------------------------------------------------------------------
(* The neural runtime (tch), as called from lib.rs *)

\* CModule::load_on_device
load_on_device(env, path) ==
    IF env.load THEN OkVal([model |-> path]) ELSE Err("load error")

\* GPTSovits::resample
resample(env, audio, sr, target_sr) ==
    IF target_sr \in env.resample THEN Err("resample error")
    ELSE OkVal([src |-> audio, from |-> sr, rate |-> target_sr])

\* self.ssl.forward_ts(&[&ref_audio_16k])
ssl_forward(env, audio_16k) ==
    IF env.ssl THEN OkVal([ssl_of |-> audio_16k]) ELSE Err("forward error")

\* Speaker::infer: one frame of audio per phoneme, each a function of the
\* cached reference bundle and of the new sequences.
SpeakerInferArgs(s, phone_seq, bert_seq) ==
    [model |-> s.gpt_sovits, ssl_content |-> s.ssl_content,
     ref_audio_32k |-> s.ref_audio_32k, ref_phone_seq |-> s.ref_phone_seq,
     text_phone_seq |-> phone_seq, ref_bert_seq |-> s.ref_bert_seq,
     bert_seq |-> bert_seq]

SpeakerInfer(env, s, phone_seq, bert_seq) ==
    IF \E i \in 1..Len(phone_seq) :
          \E c \in Chars : SymbolId(c) = phone_seq[i] /\ env.sym[c] = "rej"
    THEN Err("forward error")
    ELSE OkVal([i \in 1..Len(phone_seq) |->
                  [by |-> s.gpt_sovits, ref |-> s.ref_phone_seq,
                   ref32k |-> s.ref_audio_32k, ssl |-> s.ssl_content,
                   phone |-> phone_seq[i], bert |-> bert_seq[i]]])

\* Tensor::cat(&audios, 0)
RECURSIVE TensorCat(_)
TensorCat(audios) ==
    IF audios = <<>> THEN <<>> ELSE Head(audios) \o TensorCat(Tail(audios))

----------------------------------------------------------------------------
(* GPTSovits::create_speaker *)

EndsWithTerminator(text) == text # <<>> /\ text[Len(text)] \in Terminators

\* Variant: only the ASCII full stop counts as a terminator.
NormalizeRefTextAsciiOnly(ref_text) ==
    IF ref_text # <<>> /\ ref_text[Len(ref_text)] = "." THEN ref_text
    ELSE ref_text \o <<".">>

NormalizeRefText(ref_text) ==
    IF ~EndsWithTerminator(ref_text) THEN ref_text \o <<".">> ELSE ref_text

\* Variant: the old record of the name is removed before the new one is built.
CreateAbortDropsOld(spk, name, r, log) ==
    [speakers |-> [spk EXCEPT ![name] = NoSpeaker], result |-> Err(r.err),
     runtime |-> log, built |-> NoSpeaker]

\* A step failed: the `?` returns the error, the registry is as it was.
CreateAbort(spk, name, r, log) ==
    [speakers |-> spk, result |-> Err(r.err), runtime |-> log,
     built |-> NoSpeaker]

\* Variant: entry(name).or_insert(speaker), which keeps an existing record.
InsertSpeakerIfAbsent(spk, name, speaker) ==
    IF spk[name] = NoSpeaker THEN [spk EXCEPT ![name] = speaker] ELSE spk

\* self.speakers.insert(name.to_string(), speaker)
InsertSpeaker(spk, name, speaker) == [spk EXCEPT ![name] = speaker]

\* The run of create_speaker on registry spk: the registry it leaves, the
\* result it returns, the runtime calls it made, in order, and the Speaker
\* it built.
CreateSpeakerRun(spk, name, path, samples, sr, ref_text, env) ==
    LET gpt_sovits == load_on_device(env, path)
        rt == NormalizeRefText(ref_text)
        ref_audio_16k == resample(env, samples, sr, Rate16k)
        ref_audio_32k == resample(env, samples, sr, Rate32k)
        ssl_content == ssl_forward(env, ref_audio_16k.val)
        pb == get_phone_and_bert(env, rt)
        speaker == [name |-> name,
                    gpt_sovits |-> gpt_sovits.val,
                    ref_text |-> rt,
                    ssl_content |-> ssl_content.val,
                    ref_audio_32k |-> ref_audio_32k.val,
                    ref_phone_seq |-> pb.val.phone,
                    ref_bert_seq |-> pb.val.bert]
        Abort(r, log) == CreateAbort(spk, name, r, log)
    IN  IF ~gpt_sovits.ok THEN Abort(gpt_sovits, <<"load">>)
        ELSE IF ~ref_audio_16k.ok
             THEN Abort(ref_audio_16k, <<"load", "resample16k">>)
        ELSE IF ~ref_audio_32k.ok
             THEN Abort(ref_audio_32k, <<"load", "resample16k", "resample32k">>)
        ELSE IF ~ssl_content.ok
             THEN Abort(ssl_content,
                        <<"load", "resample16k", "resample32k", "ssl_forward">>)
        ELSE IF ~pb.ok
             THEN Abort(pb, <<"load", "resample16k", "resample32k", "ssl_forward">>)
        ELSE [speakers |-> InsertSpeaker(spk, name, speaker),
              result |-> OkUnit,
              runtime |-> <<"load", "resample16k", "resample32k", "ssl_forward">>,
              built |-> speaker]

----------------------------------------------------------------------------
(* GPTSovits::infer *)

\* Variant: the text is phonemized before the speaker is looked up.
InferRunPhonemizeFirst(spk, speaker, target_text, env) ==
    LET s == spk[speaker]
        pb == get_phone_and_bert(env, target_text)
        audio == SpeakerInfer(env, s, pb.val.phone, pb.val.bert)
    IN  IF ~pb.ok THEN [result |-> Err(pb.err), forward |-> <<>>]
        ELSE IF s = NoSpeaker
        THEN [result |-> Err(ErrSpeakerNotFound), forward |-> <<>>]
        ELSE [result |-> (IF audio.ok THEN OkVal(audio.val) ELSE Err(audio.err)),
              forward |-> <<SpeakerInferArgs(s, pb.val.phone, pb.val.bert)>>]

\* The run of infer: its result and the forward-synthesis calls it made.
InferRun(spk, speaker, target_text, env) ==
    LET s == spk[speaker]
        pb == get_phone_and_bert(env, target_text)
        audio == SpeakerInfer(env, s, pb.val.phone, pb.val.bert)
    IN  IF s = NoSpeaker
        THEN [result |-> Err(ErrSpeakerNotFound), forward |-> <<>>]
        ELSE IF ~pb.ok THEN [result |-> Err(pb.err), forward |-> <<>>]
        ELSE [result |-> (IF audio.ok THEN OkVal(audio.val) ELSE Err(audio.err)),
              forward |-> <<SpeakerInferArgs(s, pb.val.phone, pb.val.bert)>>]

----------------------------------------------------------------------------
(* GPTSovits::segment_infer *)

\* Variant: another default.
ResolveChunkSizeOne(split_chunk_size) ==
    IF split_chunk_size = 0 THEN 1 ELSE split_chunk_size

ResolveChunkSize(split_chunk_size) ==
    IF split_chunk_size = 0 THEN DefaultChunkSize ELSE split_chunk_size

\* Variant: audios.insert(0, audio).
PushAudioFront(audios, audio) == <<audio>> \o audios

\* audios.push(audio)
PushAudio(audios, audio) == Append(audios, audio)

\* The for loop over the chunks: acc holds the audios pushed so far and the
\* calls made so far; the first failing infer leaves the loop with its error.
RECURSIVE InferChunks(_, _, _, _, _)
InferChunks(spk, speaker, chunks, env, acc) ==
    IF chunks = <<>> THEN acc
    ELSE LET r == InferRun(spk, speaker, Head(chunks), env)
             made == [acc EXCEPT
                        !.infer = Append(@, [speaker |-> speaker,
                                             text |-> Head(chunks)]),
                        !.forward = @ \o r.forward]
         IN  IF ~r.result.ok
             THEN [made EXCEPT !.failed = TRUE, !.err = r.result.err]
             ELSE InferChunks(spk, speaker, Tail(chunks), env,
                              [made EXCEPT
                                 !.audios = PushAudio(@, r.result.val)])

\* Variant: a failure keeps the audio of the fragments before it.
SegmentInferResultPartial(loop) ==
    IF loop.audios # <<>> THEN OkVal(TensorCat(loop.audios))
    ELSE IF loop.failed THEN Err(loop.err)
    ELSE Err(ErrNoAudio)

\* Variant: no audio is an empty buffer, not an error.
SegmentInferResultEmptyOk(loop) ==
    IF loop.failed THEN Err(loop.err) ELSE OkVal(TensorCat(loop.audios))

\* Variant: the fragments' errors are swallowed when no audio was produced.
SegmentInferResultNoAudioOnFailure(loop) ==
    IF loop.audios # <<>> /\ ~loop.failed THEN OkVal(TensorCat(loop.audios))
    ELSE IF loop.audios # <<>> THEN Err(loop.err)
    ELSE Err(ErrNoAudio)

SegmentInferResult(loop) ==
    IF loop.failed THEN Err(loop.err)
    ELSE IF loop.audios # <<>> THEN OkVal(TensorCat(loop.audios))
    ELSE Err(ErrNoAudio)

\* The run of segment_infer: its result and the calls it made.
SegmentInferRun(spk, speaker, target_text, split_chunk_size, env) ==
    LET size == ResolveChunkSize(split_chunk_size)
        chunks == split_text(target_text, size)
        loop == InferChunks(spk, speaker, chunks, env,
                            [audios |-> <<>>, infer |-> <<>>, forward |-> <<>>,
                             failed |-> FALSE, err |-> ""])
    IN  [result |-> SegmentInferResult(loop),
         calls |-> [infer |-> loop.infer, forward |-> loop.forward,
                    runtime |-> <<>>]]

----------------------------------------------------------------------------
(* The state machine *)

Init ==
    /\ speakers = [n \in Names |-> NoSpeaker]
    /\ pc = "idle"
    /\ op = NoOp
    /\ result = OkUnit
    /\ calls = NoCalls
    /\ enrolled = [n \in Names |-> NoSpeaker]

CreateSpeaker ==
    /\ pc = "idle"
    /\ \E name \in Names, path \in Paths, samples \in SampleBuffers,
          sr \in Rates, ref_text \in RefTexts, env \in CreateEnvs :
          LET r == CreateSpeakerRun(speakers, name, path, samples, sr,
                                    ref_text, env)
          IN  /\ speakers' = r.speakers
              /\ result' = r.result
              /\ calls' = [NoCalls EXCEPT !.runtime = r.runtime]
              /\ op' = [NoOp EXCEPT !.kind = "create_speaker", !.name = name,
                                    !.path = path, !.samples = samples,
                                    !.sr = sr, !.text = ref_text,
                                    !.replaced = IF r.result.ok
                                                 THEN speakers[name]
                                                 ELSE NoSpeaker]
              /\ enrolled' = IF r.result.ok
                             THEN [enrolled EXCEPT ![name] = r.built]
                             ELSE enrolled
    /\ pc' = "done"

\* Variant: infer resamples the reference audio of the speaker again.
InferResamples ==
    /\ pc = "idle"
    /\ \E speaker \in Names, target_text \in Texts :
        \E env \in SynthEnvsFor(target_text) :
          LET r == InferRun(speakers, speaker, target_text, env)
          IN  /\ result' = r.result
              /\ calls' = [NoCalls EXCEPT !.forward = r.forward]
              /\ op' = [NoOp EXCEPT !.kind = "infer", !.name = speaker,
                                    !.text = target_text]
              /\ speakers' =
                    IF speakers[speaker] = NoSpeaker THEN speakers
                    ELSE [speakers EXCEPT ![speaker].ref_audio_32k =
                            [src |-> <<>>, from |-> Rate32k, rate |-> Rate32k]]
    /\ pc' = "done"
    /\ UNCHANGED enrolled

Infer ==
    /\ pc = "idle"
    /\ \E speaker \in Names, target_text \in Texts :
        \E env \in SynthEnvsFor(target_text) :
          LET r == InferRun(speakers, speaker, target_text, env)
          IN  /\ result' = r.result
              /\ calls' = [NoCalls EXCEPT !.forward = r.forward]
              /\ op' = [NoOp EXCEPT !.kind = "infer", !.name = speaker,
                                    !.text = target_text]
    /\ pc' = "done"
    /\ UNCHANGED <<speakers, enrolled>>

SegmentInfer ==
    /\ pc = "idle"
    /\ \E speaker \in Names, target_text \in Texts,
          split_chunk_size \in ChunkSizes :
        \E env \in SynthEnvsFor(target_text) :
          LET r == SegmentInferRun(speakers, speaker, target_text,
                                   split_chunk_size, env)
          IN  /\ result' = r.result
              /\ calls' = r.calls
              /\ op' = [NoOp EXCEPT !.kind = "segment_infer", !.name = speaker,
                                    !.text = target_text,
                                    !.size = split_chunk_size, !.env = env]
    /\ pc' = "done"
    /\ UNCHANGED <<speakers, enrolled>>

\* The call returns to its caller: its result and locals are gone.
Return ==
    /\ pc = "done"
    /\ pc' = "idle"
    /\ op' = NoOp
    /\ result' = OkUnit
    /\ calls' = NoCalls
    /\ UNCHANGED <<speakers, enrolled>>

Next == CreateSpeaker \/ Infer \/ SegmentInfer \/ Return

Spec == Init /\ [][Next]_vars

----------------------------------------------------------------------------
(* Properties *)

IsDone(kind) == pc = "done" /\ op.kind = kind

\* The fragments of the segment_infer call that ran last.
Frags == split_text(op.text, ResolveChunkSize(op.size))

\* What infer returns on the i-th fragment, in the registry and the
\* environment of that call.
FragResult(i) == InferRun(speakers, op.name, Frags[i], op.env).result

FragLen(i) == Len(FragResult(i).val)

RECURSIVE SumFragLen(_)
SumFragLen(n) == IF n = 0 THEN 0 ELSE SumFragLen(n - 1) + FragLen(n)

AllFragsOk == \A i \in 1..Len(Frags) : FragResult(i).ok
SomeFragFails == \E i \in 1..Len(Frags) : ~FragResult(i).ok
FirstFailing ==
    CHOOSE i \in 1..Len(Frags) :
        ~FragResult(i).ok /\ \A j \in 1..(i - 1) : FragResult(j).ok

InferCallOn(i) == [speaker |-> op.name, text |-> Frags[i]]

\* A step of create_speaker fails in environment env.
SomeStepFails(env, ref_text) ==
    \/ ~env.load
    \/ env.resample # {}
    \/ ~env.ssl
    \/ \E i \in 1..Len(ref_text) : env.sym[ref_text[i]] = "unk"
    \/ (~EndsWithTerminator(ref_text) /\ env.sym["."] = "unk")

\* C1: create_speaker is all-or-nothing on the registry.  In every state
\* from which it can be called, whatever its arguments, if a step fails
\* (load, either resample, feature extraction, phonemization) the call
\* returns an error and leaves the registry as it was; and every step of
\* the program that is a failed create_speaker leaves the registry, absent
\* and enrolled names alike, unchanged.
C1_EnrollAllOrNothing ==
    /\ [](pc = "idle" =>
            \A name \in Names, path \in Paths, samples \in SampleBuffers,
               sr \in Rates, ref_text \in RefTexts, env \in CreateEnvs :
               SomeStepFails(env, ref_text) =>
                  LET r == CreateSpeakerRun(speakers, name, path, samples, sr,
                                            ref_text, env)
                  IN  ~r.result.ok /\ r.speakers = speakers)
    /\ [][(pc' = "done" /\ op'.kind = "create_speaker" /\ ~result'.ok)
            => speakers' = speakers]_vars

\* A create_speaker failed on a name that was enrolled before.
C1_Witness ==
    /\ IsDone("create_speaker")
    /\ ~result.ok
    /\ speakers[op.name] # NoSpeaker

\* C2: the registry holds at most one Speaker per name, the one of the most
\* recent successful create_speaker for that name, and the forward call of
\* infer is made with the reference bundle of that enrollment.
C2_ReenrollReplaces ==
    /\ \A n \in Names :
          /\ speakers[n] = enrolled[n]
          /\ speakers[n] # NoSpeaker => speakers[n].name = n
    /\ (IsDone("infer") /\ calls.forward # <<>>) =>
          LET e == enrolled[op.name]
              a == calls.forward[1]
          IN  /\ Len(calls.forward) = 1
              /\ e # NoSpeaker
              /\ a.model = e.gpt_sovits
              /\ a.ssl_content = e.ssl_content
              /\ a.ref_audio_32k = e.ref_audio_32k
              /\ a.ref_phone_seq = e.ref_phone_seq
              /\ a.ref_bert_seq = e.ref_bert_seq

\* A successful create_speaker replaced a different record of the same name.
C2_Witness ==
    /\ IsDone("create_speaker")
    /\ result.ok
    /\ op.replaced # NoSpeaker
    /\ op.replaced.ref_text # speakers[op.name].ref_text
    /\ op.replaced.gpt_sovits # speakers[op.name].gpt_sovits
    /\ op.replaced.ref_audio_32k # speakers[op.name].ref_audio_32k

\* C3: infer on a name that is not a key of the registry returns the
\* "speaker not found" error whatever the text, makes no forward-synthesis
\* call and leaves the registry unchanged.
C3_InferUnknownSpeaker ==
    [][(pc' = "done" /\ op'.kind = "infer" /\ speakers[op'.name] = NoSpeaker)
         => /\ result' = Err(ErrSpeakerNotFound)
            /\ calls'.forward = <<>>
            /\ speakers' = speakers]_vars

\* infer ran on a missing name while another speaker is enrolled.
C3_Witness ==
    /\ IsDone("infer")
    /\ speakers[op.name] = NoSpeaker
    /\ \E n \in Names : speakers[n] # NoSpeaker
    /\ op.text # <<>>
    /\ result = Err(ErrSpeakerNotFound)

\* C4: when infer succeeds on every fragment, segment_infer calls infer
\* once per fragment in fragment order and returns the audios in that order:
\* the i-th piece of the result is the audio of the i-th fragment and the
\* length of the result is the sum of the fragments' audio lengths.
C4_ConcatInFragmentOrder ==
    (IsDone("segment_infer") /\ Frags # <<>> /\ AllFragsOk) =>
        /\ result.ok
        /\ Len(calls.infer) = Len(Frags)
        /\ \A i \in 1..Len(Frags) : calls.infer[i] = InferCallOn(i)
        /\ Len(result.val) = SumFragLen(Len(Frags))
        /\ \A i \in 1..Len(Frags) :
              SubSeq(result.val, SumFragLen(i - 1) + 1, SumFragLen(i))
                 = FragResult(i).val

\* segment_infer succeeded on two fragments whose audios differ.
C4_Witness ==
    /\ IsDone("segment_infer")
    /\ result.ok
    /\ Len(Frags) >= 2
    /\ FragResult(1).val # FragResult(2).val

\* C5: segment_infer is fail-fast.  If infer fails on a fragment, the call
\* returns the error of the first failing fragment, never audio, and makes
\* no infer call after that fragment.
C5_FailFast ==
    (IsDone("segment_infer") /\ SomeFragFails) =>
        /\ ~result.ok
        /\ result = Err(FragResult(FirstFailing).err)
        /\ Len(calls.infer) = FirstFailing
        /\ \A i \in 1..FirstFailing : calls.infer[i] = InferCallOn(i)

\* The second fragment failed after the first had produced audio.
C5_Witness ==
    /\ IsDone("segment_infer")
    /\ Len(Frags) >= 2
    /\ FragResult(1).ok
    /\ FragLen(1) > 0
    /\ ~FragResult(2).ok
    /\ ~result.ok

\* C6: when segmentation yields no fragment, segment_infer returns the
\* "no audio generated" error, for every chunk size and every speaker name,
\* and makes no infer call.
C6_EmptyInput ==
    (IsDone("segment_infer") /\ Frags = <<>>) =>
        /\ result = Err(ErrNoAudio)
        /\ calls.infer = <<>>
        /\ calls.forward = <<>>

\* segment_infer ran on the empty text for an enrolled speaker.
C6_Witness ==
    /\ IsDone("segment_infer")
    /\ op.text = <<>>
    /\ Frags = <<>>
    /\ speakers[op.name] # NoSpeaker
    /\ result = Err(ErrNoAudio)

\* C7 as claimed: when segmentation yields at least one fragment and infer
\* fails on all of them, segment_infer returns "no audio generated".
C7_AllFailIsNoAudio ==
    (IsDone("segment_infer") /\ Frags # <<>>
       /\ \A i \in 1..Len(Frags) : ~FragResult(i).ok)
        => result = Err(ErrNoAudio)

\* C7 amended: when segmentation yields at least one fragment and infer
\* fails on all of them, segment_infer returns the error of the first
\* fragment's infer, which is not "no audio generated"; that error is
\* returned only when segmentation yields no fragment.
C7_AllFailIsFirstError ==
    /\ (IsDone("segment_infer") /\ Frags # <<>>
          /\ \A i \in 1..Len(Frags) : ~FragResult(i).ok)
         => /\ result = Err(FragResult(1).err)
            /\ result.err # ErrNoAudio
    /\ (IsDone("segment_infer") /\ result.err = ErrNoAudio) => Frags = <<>>

\* infer failed on each of two fragments of an enrolled speaker.
C7_Witness ==
    /\ IsDone("segment_infer")
    /\ Len(Frags) >= 2
    /\ \A i \in 1..Len(Frags) : ~FragResult(i).ok
    /\ speakers[op.name] # NoSpeaker

\* C8: segment_infer with chunk size 0 behaves as with chunk size 50: the
\* same fragments, the same infer and forward calls, the same result.
C8_ZeroIsFifty ==
    (IsDone("segment_infer") /\ op.size = 0) =>
        LET r == SegmentInferRun(speakers, op.name, op.text, 50, op.env)
        IN  /\ result = r.result
            /\ calls = r.calls
            /\ Len(calls.infer) <= Len(split_text(op.text, 50))
            /\ \A i \in 1..Len(calls.infer) :
                  calls.infer[i].text = split_text(op.text, 50)[i]

\* segment_infer ran with chunk size 0 on a text that a smaller chunk size
\* splits otherwise, for an enrolled speaker.
C8_Witness ==
    /\ IsDone("segment_infer")
    /\ op.size = 0
    /\ speakers[op.name] # NoSpeaker
    /\ result.ok
    /\ split_text(op.text, 1) # split_text(op.text, 50)

\* C9: the ref_text of every Speaker of the registry ends with "." or the
\* ideographic full stop; create_speaker stores a transcript that ends with
\* one of them unchanged and any other with exactly one "." appended.
C9_RefTextTerminated ==
    /\ \A n \in Names :
          speakers[n] # NoSpeaker =>
             /\ speakers[n].ref_text # <<>>
             /\ speakers[n].ref_text[Len(speakers[n].ref_text)] \in Terminators
    /\ (IsDone("create_speaker") /\ result.ok) =>
          LET stored == speakers[op.name].ref_text
          IN  IF op.text # <<>> /\ op.text[Len(op.text)] \in Terminators
              THEN stored = op.text
              ELSE /\ Len(stored) = Len(op.text) + 1
                   /\ SubSeq(stored, 1, Len(op.text)) = op.text
                   /\ stored[Len(stored)] = "."

\* A transcript without a terminator is stored with "." appended, next to
\* one stored with the ideographic full stop it came with.
C9_Witness ==
    /\ IsDone("create_speaker")
    /\ result.ok
    /\ op.text = <<"a">>
    /\ speakers[op.name].ref_text = <<"a", ".">>
    /\ \E n \in Names : speakers[n] # NoSpeaker
                        /\ speakers[n].ref_text = <<"a", "o">>

\* C10: synthesis never changes speaker state.  Every infer and every
\* segment_infer, successful or not, leaves the registry (its keys and every
\* cached reference bundle) unchanged and makes no load, resample or
\* feature-extraction call.
C10_SynthesisKeepsSpeakers ==
    [][(pc' = "done" /\ op'.kind \in {"infer", "segment_infer"})
         => /\ speakers' = speakers
            /\ calls'.runtime = <<>>]_vars

\* infer made its forward call on an enrolled speaker and succeeded.
C10_Witness ==
    /\ IsDone("infer")
    /\ speakers[op.name] # NoSpeaker
    /\ result.ok
    /\ calls.forward # <<>>

====
